---- MODULE Spec2Model ----
(***************************************************************************)
(* Model of population_to_od.py: the network loader (load_network_data),   *)
(* the streaming plan reconstruction and trip extraction                   *)
(* (process_population) and the script's main block.                       *)
(*                                                                         *)
(* Attribute values are the strings of the XML documents.  float(), int()  *)
(* and str.split(':') are modelled by their value on each string of the    *)
(* bounded universe used here, so that parsing is never the identity.      *)
(***************************************************************************)
EXTENDS Integers, Sequences, FiniteSets, TLC

\* elem.get(name) of an attribute that is absent (Python None)
None == "<None>"

(***************************************************************************)
(* Bounds of the exploration.                                              *)
(***************************************************************************)
\* elements of the population document that are opened in one run
MaxElems == 6
\* nesting depth of the population document
MaxDepth == 4
\* calls of time_to_seconds in one exploration of the function on its own
MaxCalls == 2

(***************************************************************************)
(* float(s): ValueError, a finite number, or a non-finite one (nan, inf).  *)
(***************************************************************************)
FloatStrings == {"0", "0.0", "10", "5", "abc", "", "nan"}

float(s) ==
  CASE s = "0"   -> [ok |-> TRUE,  finite |-> TRUE,  val |-> 0]
    [] s = "0.0" -> [ok |-> TRUE,  finite |-> TRUE,  val |-> 0]
    [] s = "10"  -> [ok |-> TRUE,  finite |-> TRUE,  val |-> 10]
    [] s = "5"   -> [ok |-> TRUE,  finite |-> TRUE,  val |-> 5]
    [] s = "nan" -> [ok |-> TRUE,  finite |-> FALSE, val |-> 0]
    [] OTHER     -> [ok |-> FALSE, finite |-> FALSE, val |-> 0]

(***************************************************************************)
(* time_str.split(':') and int(field).                                     *)
(***************************************************************************)
TimeStrings ==
  {"07:00:00", "08:15:00", "08:15", "25:00:00", "08:75", "-1:30", "8", "1:2:3:4",
   "08:xx", "abc", ""}

split(s) ==
  CASE s = "07:00:00" -> <<"07", "00", "00">>
    [] s = "08:15:00" -> <<"08", "15", "00">>
    [] s = "08:15"    -> <<"08", "15">>
    [] s = "25:00:00" -> <<"25", "00", "00">>
    [] s = "08:75"    -> <<"08", "75">>
    [] s = "-1:30"    -> <<"-1", "30">>
    [] s = "8"        -> <<"8">>
    [] s = "1:2:3:4"  -> <<"1", "2", "3", "4">>
    [] s = "08:xx"    -> <<"08", "xx">>
    [] OTHER          -> <<s>>

int(f) ==
  CASE f = "00" -> [ok |-> TRUE, val |-> 0]
    [] f = "1"  -> [ok |-> TRUE, val |-> 1]
    [] f = "2"  -> [ok |-> TRUE, val |-> 2]
    [] f = "3"  -> [ok |-> TRUE, val |-> 3]
    [] f = "4"  -> [ok |-> TRUE, val |-> 4]
    [] f = "07" -> [ok |-> TRUE, val |-> 7]
    [] f = "8"  -> [ok |-> TRUE, val |-> 8]
    [] f = "08" -> [ok |-> TRUE, val |-> 8]
    [] f = "15" -> [ok |-> TRUE, val |-> 15]
    [] f = "25" -> [ok |-> TRUE, val |-> 25]
    [] f = "30" -> [ok |-> TRUE, val |-> 30]
    [] f = "75" -> [ok |-> TRUE, val |-> 75]
    [] f = "-1" -> [ok |-> TRUE, val |-> -1]
    [] OTHER    -> [ok |-> FALSE, val |-> 0]

\* the result None of time_to_seconds
NoSeconds == [ok |-> FALSE, val |-> 0]

Seconds(n) == [ok |-> TRUE, val |-> n]

\* a conversion that takes a lone field for the hours
time_to_seconds_one_field(time_str) ==
  IF time_str = None \/ time_str = ""
  THEN NoSeconds
  ELSE LET parts == split(time_str)
       IN  IF \E i \in 1..Len(parts) : ~int(parts[i]).ok
           THEN NoSeconds
           ELSE IF Len(parts) = 3
                THEN Seconds(int(parts[1]).val * 3600 + int(parts[2]).val * 60
                             + int(parts[3]).val)
                ELSE IF Len(parts) = 2
                     THEN Seconds(int(parts[1]).val * 3600 + int(parts[2]).val * 60)
                     ELSE IF Len(parts) = 1
                          THEN Seconds(int(parts[1]).val * 3600)
                          ELSE NoSeconds

\* time_to_seconds(time_str)
time_to_seconds(time_str) ==
  IF time_str = None \/ time_str = ""
  THEN NoSeconds
  ELSE LET parts == split(time_str)
       IN  IF \E i \in 1..Len(parts) : ~int(parts[i]).ok
           THEN NoSeconds
           ELSE IF Len(parts) = 3
                THEN Seconds(int(parts[1]).val * 3600 + int(parts[2]).val * 60
                             + int(parts[3]).val)
                ELSE IF Len(parts) = 2
                     THEN Seconds(int(parts[1]).val * 3600 + int(parts[2]).val * 60)
                     ELSE NoSeconds

(***************************************************************************)
(* The network documents of the exploration: the elements of the file in   *)
(* document order.  A document that is not well-formed makes the parser    *)
(* raise XMLSyntaxError once the elements before the error were delivered. *)
(***************************************************************************)
Node(id, x, y) ==
  [tag |-> "node", id |-> id, x |-> x, y |-> y, from |-> None, to |-> None]

Link(id, from, to) ==
  [tag |-> "link", id |-> id, x |-> None, y |-> None, from |-> from, to |-> to]

NetMissing == [exists |-> FALSE, wellformed |-> TRUE, elems |-> <<>>]

NetMalformed ==
  [exists |-> TRUE, wellformed |-> FALSE,
   elems |-> <<Node("n1", "0", "0"), Link("l1", "n1", "n2")>>]

NetNoNodes ==
  [exists |-> TRUE, wellformed |-> TRUE,
   elems |-> <<Node("n1", "abc", "0"), Node(None, "0", "0"), Node("n2", "10", None),
               Node("", "5", "5"), Link("l1", "n1", "n2")>>]

NetTwo ==
  [exists |-> TRUE, wellformed |-> TRUE,
   elems |-> <<Link(None, "n1", "n2"), Node("n1", "0", "0"), Link("l1", "n1", "n2"),
               Node("nx", "5", "abc"), Node("n2", "10", "10"),
               Link("l2", "n1", "n2"), Link("l3", "n2", None), Link("l4", "", "n1")>>]

NetDup ==
  [exists |-> TRUE, wellformed |-> TRUE,
   elems |-> <<Node("n1", "0", "0"), Node("n2", "0.0", "0.0"), Node("n3", "10", "0"),
               Link("l2", "n2", "n1"), Link("l3", "n3", "n1"), Link("l5", "n3", "n2")>>]

NetNan ==
  [exists |-> TRUE, wellformed |-> TRUE,
   elems |-> <<Node("n1", "0", "0"), Node("n2", "nan", "0"), Link("l1", "n1", "n2")>>]

NetworkFiles == {NetMissing, NetMalformed, NetNoNodes, NetTwo, NetDup, NetNan}

\* Python truthiness of an attribute value: neither None nor the empty string
Truthy(s) == s # None /\ s # ""

VARIABLES
  pc,                   \* position of the script
  network_file,         \* the network document given on the command line
  net_pos,              \* next element of the network document in the current pass
  node_coords_list,     \* load_network_data: coordinates of the accepted nodes
  node_id_map,          \* load_network_data: ids of the accepted nodes, same order
  links_from_node_map,  \* load_network_data: from-node -> links, in document order
  kdtree_built,         \* the KDTree was built over node_coords_list
  node_kdtree,          \* the KDTree: for each query point, the index query returns
  population_file,      \* the population document given on the command line
  output_openable,      \* the output file can be opened for writing
  stack,                \* population parser: the open elements, outermost first
  n_elems,              \* population parser: elements opened so far
  outfile_opened,       \* the output file was opened (created or truncated)
  outfile,              \* the lines written to the output file
  trip_counter,         \* process_population
  person_counter,       \* process_population
  current_person_id,    \* process_population
  is_selected_plan,     \* process_population
  plan_items,           \* process_population
  item_src,             \* for each entry of plan_items, the element it was built from
  trip_src,             \* for each trip line written, the elements it was built from
  last_scan,            \* the plan element of the latest extraction, and its items' plans
  skipped_no_start,     \* <<dep_time, end_time>> of matched car legs left without start
  expected_trips,       \* legs of the document so far that qualify for a trip
  plan_log,             \* the plans that ended: selected, and their legs between activities
  hierarchy_ok,         \* the events so far follow population > person > plan > items
  conversions,          \* time_to_seconds explored on its own: arguments and results
  failure,              \* the failure the run reported, "none" when it reported none
  exit_status           \* exit status of the process, -1 while it runs

netvars == <<network_file, net_pos, node_coords_list, node_id_map,
             links_from_node_map, kdtree_built, node_kdtree>>

(***************************************************************************)
(* load_network_data                                                       *)
(***************************************************************************)
\* lines 48-60: one <node> end event
AcceptNode(elem) ==
  /\ Truthy(elem.id) /\ elem.x # None /\ elem.y # None
  /\ float(elem.x).ok /\ float(elem.y).ok

NodeCoords(elem) ==
  [x |-> float(elem.x).val, y |-> float(elem.y).val,
   finite |-> float(elem.x).finite /\ float(elem.y).finite]

\* lines 74-80: one <link> end event
AcceptLink(elem) == Truthy(elem.id) /\ Truthy(elem.from) /\ Truthy(elem.to)

AppendLink(map, elem) ==
  LET old == IF elem.from \in DOMAIN map THEN map[elem.from] ELSE <<>>
      new == Append(old, [id |-> elem.id, to |-> elem.to])
  IN  [k \in DOMAIN map \cup {elem.from} |-> IF k = elem.from THEN new ELSE map[k]]

\* a lookup that takes the link listed last for the node instead of the first
find_last_outgoing_link(node_id_from, links_map_from_node) ==
  IF node_id_from \in DOMAIN links_map_from_node
     /\ links_map_from_node[node_id_from] # <<>>
  THEN links_map_from_node[node_id_from][Len(links_map_from_node[node_id_from])].id
  ELSE "UNKNOWN_LINK"

\* find_outgoing_link(node_id_from, links_map_from_node)
find_outgoing_link(node_id_from, links_map_from_node) ==
  IF node_id_from \in DOMAIN links_map_from_node
     /\ links_map_from_node[node_id_from] # <<>>
  THEN links_map_from_node[node_id_from][1].id
  ELSE "UNKNOWN_LINK"

(***************************************************************************)
(* The elements of the population document.  An element is delivered as a  *)
(* start event and, once its content was delivered, as an end event.       *)
(***************************************************************************)
Elem(tag, id, selected, x, y, end_time, mode, dep_time) ==
  [tag |-> tag, id |-> id, selected |-> selected, x |-> x, y |-> y,
   end_time |-> end_time, mode |-> mode, dep_time |-> dep_time]

Other == Elem("other", None, None, None, None, None, None, None)

Person(id) == Elem("person", id, None, None, None, None, None, None)

Plan(selected) == Elem("plan", None, selected, None, None, None, None, None)

Activity(x, y, end_time) == Elem("activity", None, None, x, y, end_time, None, None)

Leg(mode, dep_time) == Elem("leg", None, None, None, None, None, mode, dep_time)

Persons == {Person("p1"), Person(None)}

Plans == {Plan("yes"), Plan("no"), Plan(None)}

Activities ==
  {Activity("0", "0", "07:00:00"), Activity("10", "10", None),
   Activity(None, "abc", "07:00:00"), Activity("nan", "0", "07:00:00")}

Legs ==
  {Leg("car", None), Leg("car", "08:15"), Leg("car", "abc"), Leg("car", ""),
   Leg("walk", "08:15"), Leg(None, None)}

PopElems == {Other} \cup Persons \cup Plans \cup Activities \cup Legs

\* elements with plain attributes only
PlainElems ==
  {Other, Person("p1"), Plan("yes"),
   Activity("0", "0", "07:00:00"), Activity("10", "10", None),
   Leg("car", None), Leg("car", "08:15")}

\* elements of persons whose plans are all selected and hold car legs only
CarPlanElems ==
  {Other, Person("p1"), Plan("yes"), Activity("0", "0", "07:00:00"), Leg("car", None)}

\* The population documents of the exploration: a missing file, the documents
\* of at most MaxElems elements of any kind, the longer documents of plain
\* elements, and the still longer ones of selected plans with car legs that
\* follow the documented hierarchy.
PopulationFiles ==
  {[exists |-> FALSE, kinds |-> {}, len |-> 0, documented |-> FALSE],
   [exists |-> TRUE, kinds |-> PopElems, len |-> MaxElems, documented |-> FALSE],
   [exists |-> TRUE, kinds |-> PlainElems, len |-> MaxElems + 2, documented |-> FALSE],
   [exists |-> TRUE, kinds |-> CarPlanElems, len |-> MaxElems + 4, documented |-> TRUE]}

\* The nestings of the explored documents: the documented hierarchy
\* population > person > plan > activity | leg, a plan outside any person, and
\* a person inside a plan.
MayContain(parent_tag, tag) ==
  CASE parent_tag = "other"  -> tag \in {"person", "plan"}
    [] parent_tag = "person" -> tag = "plan"
    [] parent_tag = "plan"   -> tag \in {"activity", "leg", "person"}
    [] OTHER                 -> FALSE

popvars == <<stack, n_elems>>

outvars == <<outfile_opened, outfile>>

planvars == <<trip_counter, person_counter, current_person_id, is_selected_plan,
              plan_items>>

ghostvars == <<item_src, trip_src, last_scan, skipped_no_start, expected_trips,
               plan_log, hierarchy_ok, conversions>>

envvars == <<population_file, output_openable>>

vars == <<pc, netvars, envvars, popvars, outvars, planvars, ghostvars, failure,
          exit_status>>

(***************************************************************************)
(* The lines of the output file.                                           *)
(***************************************************************************)
RootOpen ==
  [kind |-> "<scsimulator_matrix>", name |-> <<"", 0>>, origin |-> "",
   destination |-> "", link_origin |-> "", count |-> "", start |-> 0, mode |-> "",
   digital_rails_capable |-> ""]

RootClose == [RootOpen EXCEPT !.kind = "</scsimulator_matrix>"]

\* a trip line named after the counter as it was before line 211 incremented it
TripLineStaleCounter(counter, origin, destination, link_origin, start_seconds) ==
  [kind |-> "trip", name |-> <<"t", counter - 1>>, origin |-> origin,
   destination |-> destination, link_origin |-> link_origin, count |-> "1",
   start |-> start_seconds, mode |-> "car", digital_rails_capable |-> "false"]

\* lines 212-223: the trip line; the name is "t" followed by the counter
TripLine(counter, origin, destination, link_origin, start_seconds) ==
  [kind |-> "trip", name |-> <<"t", counter>>, origin |-> origin,
   destination |-> destination, link_origin |-> link_origin, count |-> "1",
   start |-> start_seconds, mode |-> "car", digital_rails_capable |-> "false"]

(***************************************************************************)
(* Plan items (lines 156-179).                                             *)
(***************************************************************************)
NoCoords == [some |-> FALSE, x |-> 0, y |-> 0, finite |-> FALSE]

\* lines 162-167: coords is None unless both attributes are present and parse
ActivityCoords(act_x_str, act_y_str) ==
  IF act_x_str # None /\ act_y_str # None
     /\ float(act_x_str).ok /\ float(act_y_str).ok
  THEN [some |-> TRUE, x |-> float(act_x_str).val, y |-> float(act_y_str).val,
        finite |-> float(act_x_str).finite /\ float(act_y_str).finite]
  ELSE NoCoords

\* lines 169-176
ActivityItem(elem) ==
  [type |-> "activity", coords |-> ActivityCoords(elem.x, elem.y),
   end_time |-> elem.end_time, mode |-> None, dep_time |-> None]

\* line 179
LegItem(elem) ==
  [type |-> "leg", coords |-> NoCoords, end_time |-> None, mode |-> elem.mode,
   dep_time |-> elem.dep_time]

\* activity_before_leg_details = None (line 183)
NoActivity ==
  [type |-> "none", coords |-> NoCoords, end_time |-> None, mode |-> None,
   dep_time |-> None]

\* the element an item was built from: its position in the document, and the
\* nearest plan element around it (0 when it lies in no plan)
Src(elem, serial, plan, plan_selected) ==
  [elem |-> elem, serial |-> serial, plan |-> plan, plan_selected |-> plan_selected]

NoSrc == Src(Other, 0, 0, None)

NoScan == [plan |-> 0, selected |-> None, owners |-> {}]

(***************************************************************************)
(* find_closest_node_kdtree (lines 106-112).  KDTree.query returns the     *)
(* index of a nearest point; which one among several nearest points        *)
(* depends on the layout of the tree that line 101 built, so a tree is any *)
(* assignment of a nearest point to each query point: the same tree        *)
(* answers the same query the same way.  A query point that is not finite  *)
(* makes the query raise (newer scipy) or return the index len(data)       *)
(* (older scipy), which line 112 turns into IndexError: either way an      *)
(* exception leaves the function.                                          *)
(***************************************************************************)
Dist2(c, n) == (c.x - n.x) * (c.x - n.x) + (c.y - n.y) * (c.y - n.y)

NearestIndices(c, coords_list) ==
  {i \in 1..Len(coords_list) :
     \A j \in 1..Len(coords_list) : Dist2(c, coords_list[i]) <= Dist2(c, coords_list[j])}

\* the finite points the activities of the explored documents are at
QueryPoints ==
  {[x |-> float(a.x).val, y |-> float(a.y).val] :
     a \in {b \in Activities : /\ b.x # None /\ b.y # None
                               /\ float(b.x).ok /\ float(b.y).ok
                               /\ float(b.x).finite /\ float(b.y).finite}}

\* line 101: the trees KDTree can build over coords_list; a tree over no point
\* finds no neighbour
KDTree(coords_list) ==
  IF coords_list = <<>>
  THEN {[q \in QueryPoints |-> 0]}
  ELSE {t \in [QueryPoints -> 1..Len(coords_list)] :
          \A q \in QueryPoints : t[q] \in NearestIndices(q, coords_list)}

\* no tree (kdtree is None)
NoTree == [q \in {} |-> 0]

find_closest_node_kdtree(coord_x, coord_y, kdtree, node_id_map_list) ==
  node_id_map_list[kdtree[[x |-> coord_x, y |-> coord_y]]]

QueryRaises(c) == ~c.finite

(***************************************************************************)
(* Trip extraction at the end of a selected plan (lines 183-224).          *)
(***************************************************************************)
\* a mode test that takes every leg with a mode attribute
IsAnyModeLeg(leg_attrs) == leg_attrs.mode # None

\* line 189
IsCarLeg(leg_attrs) == leg_attrs.mode = "car"

\* line 190
NextIsActivity(items, i) == (i + 1) <= Len(items) /\ items[i + 1].type = "activity"

\* line 193
BothCoords(before, after) == before.coords.some /\ after.coords.some

\* lines 194-196
StartTimeStr(leg_attrs, before) ==
  IF leg_attrs.dep_time = None \/ leg_attrs.dep_time = ""
  THEN before.end_time
  ELSE leg_attrs.dep_time

\* lines 187-193: the leg at i is matched
LegMatched(items, i, before) ==
  /\ before.type = "activity"
  /\ IsCarLeg(items[i])
  /\ NextIsActivity(items, i)
  /\ BothCoords(before, items[i + 1])

NoOutcome == [lines |-> <<>>, srcs |-> <<>>, skipped |-> {}, raised |-> FALSE]

Raised == [NoOutcome EXCEPT !.raised = TRUE]

RECURSIVE Scan(_, _, _, _, _, _)

\* lines 208-224 for a resolved origin and destination, then the rest of the loop
Emit(items, srcs, i, before, before_src, counter, origin, destination, start) ==
  IF Truthy(origin) /\ Truthy(destination)
  THEN {[r EXCEPT
           !.lines = <<TripLine(counter + 1, origin, destination,
                                find_outgoing_link(origin, links_from_node_map),
                                start)>> \o @,
           !.srcs = <<[leg |-> srcs[i], before |-> before_src,
                       after |-> srcs[i + 1]]>> \o @] :
          r \in Scan(items, srcs, i + 1, before, before_src, counter + 1)}
  ELSE Scan(items, srcs, i + 1, before, before_src, counter)

\* the loop of lines 184-224 from item i on: the possible outcomes, each the
\* lines written, and whether an exception ended the loop
Scan(items, srcs, i, before, before_src, counter) ==
  IF i > Len(items)
  THEN {NoOutcome}
  ELSE IF items[i].type = "activity"
  THEN Scan(items, srcs, i + 1, items[i], srcs[i], counter)
  ELSE IF ~LegMatched(items, i, before)
  THEN Scan(items, srcs, i + 1, before, before_src, counter)
  ELSE LET after == items[i + 1]
           start_seconds == time_to_seconds(StartTimeStr(items[i], before))
       IN  IF ~start_seconds.ok
           THEN {[r EXCEPT !.skipped = @ \cup {<<items[i].dep_time, before.end_time>>}] :
                   r \in Scan(items, srcs, i + 1, before, before_src, counter)}
           ELSE IF QueryRaises(before.coords) \/ QueryRaises(after.coords)
           THEN {Raised}
           ELSE Emit(items, srcs, i, before, before_src, counter,
                     find_closest_node_kdtree(before.coords.x, before.coords.y,
                                              node_kdtree, node_id_map),
                     find_closest_node_kdtree(after.coords.x, after.coords.y,
                                              node_kdtree, node_id_map),
                     start_seconds.val)

Init ==
  /\ pc = "main"
  /\ network_file \in NetworkFiles
  /\ net_pos = 1
  /\ node_coords_list = <<>>
  /\ node_id_map = <<>>
  /\ links_from_node_map = [k \in {} |-> <<>>]
  /\ kdtree_built = FALSE
  /\ node_kdtree = NoTree
  /\ population_file \in PopulationFiles
  /\ output_openable \in BOOLEAN
  /\ stack = <<>>
  /\ n_elems = 0
  /\ outfile_opened = FALSE
  /\ outfile = <<>>
  /\ trip_counter = 0
  /\ person_counter = 0
  /\ current_person_id = None
  /\ is_selected_plan = FALSE
  /\ plan_items = <<>>
  /\ item_src = <<>>
  /\ trip_src = <<>>
  /\ last_scan = NoScan
  /\ skipped_no_start = {}
  /\ expected_trips = 0
  /\ plan_log = {}
  /\ hierarchy_ok = TRUE
  /\ conversions = <<>>
  /\ failure = "none"
  /\ exit_status = -1

\* The script reports `what` on stderr and runs to its end: no path of the
\* script calls sys.exit, and the exceptions of lines 44-84 and 132-243 are
\* caught, so the status is 0.
ScriptEnds(what) ==
  /\ failure' = what
  /\ pc' = "exit"
  /\ exit_status' = 0

\* line 46: the first pass opens the network file
OpenNetwork ==
  /\ pc = "main"
  /\ IF network_file.exists
     THEN pc' = "nodes" /\ UNCHANGED <<failure, exit_status>>
     ELSE ScriptEnds("network_missing")
  /\ UNCHANGED <<netvars, envvars, popvars, outvars, planvars, ghostvars>>

\* lines 47-60: the first pass delivers the next element; only <node> is handled
ReadNode ==
  /\ pc = "nodes"
  /\ net_pos <= Len(network_file.elems)
  /\ LET elem == network_file.elems[net_pos]
     IN  IF elem.tag = "node" /\ AcceptNode(elem)
         THEN /\ node_coords_list' = Append(node_coords_list, NodeCoords(elem))
              /\ node_id_map' = Append(node_id_map, elem.id)
         ELSE UNCHANGED <<node_coords_list, node_id_map>>
  /\ net_pos' = net_pos + 1
  /\ UNCHANGED <<pc, network_file, links_from_node_map, kdtree_built, node_kdtree,
                 envvars, popvars, outvars, planvars, ghostvars, failure,
                 exit_status>>

\* the first pass ends: XMLSyntaxError (lines 85-87), or the second pass opens (72)
EndNodes ==
  /\ pc = "nodes"
  /\ net_pos > Len(network_file.elems)
  /\ IF network_file.wellformed
     THEN pc' = "links" /\ net_pos' = 1 /\ UNCHANGED <<failure, exit_status>>
     ELSE ScriptEnds("network_malformed") /\ UNCHANGED net_pos
  /\ UNCHANGED <<network_file, node_coords_list, node_id_map, links_from_node_map,
                 kdtree_built, node_kdtree, envvars, popvars, outvars, planvars,
                 ghostvars>>

\* lines 73-81: the second pass delivers the next element; only <link> is handled
ReadLink ==
  /\ pc = "links"
  /\ net_pos <= Len(network_file.elems)
  /\ LET elem == network_file.elems[net_pos]
     IN  IF elem.tag = "link" /\ AcceptLink(elem)
         THEN links_from_node_map' = AppendLink(links_from_node_map, elem)
         ELSE UNCHANGED links_from_node_map
  /\ net_pos' = net_pos + 1
  /\ UNCHANGED <<pc, network_file, node_coords_list, node_id_map, kdtree_built,
                 node_kdtree,
                 envvars, popvars, outvars, planvars, ghostvars, failure,
                 exit_status>>

\* a load that does not look at the number of accepted nodes
NoNodesUnchecked == FALSE

\* line 95: no node was accepted
NoNodes == node_coords_list = <<>>

\* line 101: KDTree raises ValueError on data that is not finite; the call is
\* outside the try of lines 44-93
KDTreeRaises == \E i \in 1..Len(node_coords_list) : ~node_coords_list[i].finite

\* an exception leaves the script: traceback on stderr, exit status 1
ScriptDies ==
  /\ failure' = "uncaught"
  /\ pc' = "exit"
  /\ exit_status' = 1

\* lines 95-104, 273, 120: the second pass ends; without nodes the run is given
\* up, otherwise the KDTree is built, unless the constructor raises, and main
\* calls process_population
EndLinks ==
  /\ pc = "links"
  /\ net_pos > Len(network_file.elems)
  /\ IF NoNodes
     THEN ScriptEnds("no_nodes") /\ UNCHANGED <<kdtree_built, node_kdtree>>
     ELSE IF KDTreeRaises
     THEN ScriptDies /\ UNCHANGED <<kdtree_built, node_kdtree>>
     ELSE /\ kdtree_built' = TRUE
          /\ node_kdtree' \in KDTree(node_coords_list)
          /\ pc' = "open_output"
          /\ UNCHANGED <<failure, exit_status>>
  /\ UNCHANGED <<network_file, net_pos, node_coords_list, node_id_map,
                 links_from_node_map, envvars, popvars, outvars, planvars,
                 ghostvars>>

\* lines 133-134: open the output file and write the root-open tag
OpenOutput ==
  /\ pc = "open_output"
  /\ IF output_openable
     THEN /\ outfile_opened' = TRUE
          /\ outfile' = <<RootOpen>>
          /\ pc' = "open_population"
          /\ UNCHANGED <<failure, exit_status>>
     ELSE ScriptEnds("output_open") /\ UNCHANGED outvars
  /\ UNCHANGED <<netvars, envvars, popvars, planvars, ghostvars>>

\* line 138: open the population file
OpenPopulation ==
  /\ pc = "open_population"
  /\ IF population_file.exists
     THEN pc' = "stream" /\ UNCHANGED <<failure, exit_status>>
     ELSE ScriptEnds("population_missing")
  /\ UNCHANGED <<netvars, envvars, popvars, outvars, planvars, ghostvars>>

(***************************************************************************)
(* The population stream (lines 140-236).                                  *)
(***************************************************************************)
Top == stack[Len(stack)]

\* the documented hierarchy: population > person(id) > plan > activity | leg
FollowsHierarchy(e) ==
  CASE e.tag = "other"  -> stack = <<>>
    [] e.tag = "person" -> Len(stack) = 1 /\ Top.elem.tag = "other" /\ e.id # None
    [] e.tag = "plan"   -> Len(stack) = 2 /\ Top.elem.tag = "person"
    [] OTHER            -> Len(stack) = 3 /\ Top.elem.tag = "plan"

\* a selection test that takes every plan with a selected attribute
IsSelectedPresent(e) == e.selected # None

\* a selection test that takes the first selected plan of a person only
IsSelectedFirstOfPerson(e) ==
  e.selected = "yes" /\ (stack = <<>> \/ last_scan.plan < Top.serial)

\* line 148
IsSelected(e) == e.selected = "yes"

\* a plan start that is acted on without a current person id
PlanStartUnguarded(e) == e.tag = "plan"

\* line 147
PlanStartHandled(e) == e.tag = "plan" /\ current_person_id # None

\* lines 141-152: a start event
StartEvent(e) ==
  /\ pc = "stream"
  /\ n_elems < population_file.len
  /\ e \in population_file.kinds
  /\ Len(stack) < MaxDepth
  /\ IF stack = <<>>
     THEN n_elems = 0 /\ e = Other
     ELSE MayContain(Top.elem.tag, e.tag)
  /\ population_file.documented => FollowsHierarchy(e)
  /\ n_elems' = n_elems + 1
  /\ stack' = Append(stack, [elem |-> e, serial |-> n_elems + 1, kids |-> <<>>])
  /\ hierarchy_ok' = (hierarchy_ok /\ FollowsHierarchy(e))
  /\ IF e.tag = "person"
     THEN /\ current_person_id' = e.id
          /\ person_counter' = person_counter + 1
          /\ UNCHANGED <<is_selected_plan, plan_items, item_src>>
     ELSE IF PlanStartHandled(e)
     THEN /\ IF IsSelected(e)
             THEN is_selected_plan' = TRUE /\ plan_items' = <<>> /\ item_src' = <<>>
             ELSE is_selected_plan' = FALSE /\ UNCHANGED <<plan_items, item_src>>
          /\ UNCHANGED <<current_person_id, person_counter>>
     ELSE UNCHANGED <<current_person_id, person_counter, is_selected_plan,
                      plan_items, item_src>>
  /\ UNCHANGED <<pc, netvars, envvars, outvars, trip_counter, trip_src, last_scan,
                 skipped_no_start, expected_trips, plan_log, conversions, failure,
                 exit_status>>

\* the nearest plan element around the element on top of the stack
EnclosingPlans == {k \in 1..(Len(stack) - 1) : stack[k].elem.tag = "plan"}

EnclosingPlan ==
  IF EnclosingPlans = {}
  THEN 0
  ELSE CHOOSE k \in EnclosingPlans : \A j \in EnclosingPlans : j <= k

TopSrc ==
  IF EnclosingPlan = 0
  THEN Src(Top.elem, Top.serial, 0, None)
  ELSE Src(Top.elem, Top.serial, stack[EnclosingPlan].serial,
           stack[EnclosingPlan].elem.selected)

\* a buffer that grows at its head
ItemsAfterEndPrepended ==
  IF is_selected_plan /\ Top.elem.tag = "activity"
  THEN <<ActivityItem(Top.elem)>> \o plan_items
  ELSE IF is_selected_plan /\ Top.elem.tag = "leg"
  THEN <<LegItem(Top.elem)>> \o plan_items
  ELSE plan_items

\* lines 155-179: the item buffer after the end event of the top element
ItemsAfterEnd ==
  IF is_selected_plan /\ Top.elem.tag = "activity"
  THEN Append(plan_items, ActivityItem(Top.elem))
  ELSE IF is_selected_plan /\ Top.elem.tag = "leg"
  THEN Append(plan_items, LegItem(Top.elem))
  ELSE plan_items

SrcsAfterEnd ==
  IF is_selected_plan /\ Top.elem.tag \in {"activity", "leg"}
  THEN Append(item_src, TopSrc)
  ELSE item_src

\* the plan elements around the items of a buffer
Owners(srcs) == {<<srcs[i].plan, srcs[i].plan_selected>> : i \in 1..Len(srcs)}

\* line 181
PlanEndHandled == Top.elem.tag = "plan" /\ current_person_id # None

(***************************************************************************)
(* The legs of a plan of the document that qualify for a trip: mode "car", *)
(* an activity before and an activity immediately after, both with         *)
(* coordinates, and a start time that dep_time or, failing that, the       *)
(* end_time of the activity before yields.                                 *)
(***************************************************************************)
HasCoordinates(a) == a.x # None /\ a.y # None /\ float(a.x).ok /\ float(a.y).ok

Parseable(time_str) == time_to_seconds(time_str).ok

\* the start time of a leg as documented: dep_time if it parses, else end_time
DocumentedStart(dep_time, end_time) ==
  IF Parseable(dep_time) THEN time_to_seconds(dep_time) ELSE time_to_seconds(end_time)

ActivitiesBefore(kids, i) == {j \in 1..(i - 1) : kids[j].tag = "activity"}

ActivityBefore(kids, i) ==
  CHOOSE j \in ActivitiesBefore(kids, i) : \A k \in ActivitiesBefore(kids, i) : k <= j

\* the legs with an activity before and an activity immediately after, both
\* with coordinates, and a start time
LegsBetweenActivities(kids) ==
  {i \in 1..Len(kids) :
     /\ kids[i].tag = "leg"
     /\ ActivitiesBefore(kids, i) # {}
     /\ HasCoordinates(kids[ActivityBefore(kids, i)])
     /\ i + 1 <= Len(kids)
     /\ kids[i + 1].tag = "activity"
     /\ HasCoordinates(kids[i + 1])
     /\ DocumentedStart(kids[i].dep_time, kids[ActivityBefore(kids, i)].end_time).ok}

QualifyingLegs(kids) == {i \in LegsBetweenActivities(kids) : kids[i].mode = "car"}

\* the stack once the top element ended: a plan of a document that follows the
\* hierarchy collects its items
Popped ==
  LET rest == SubSeq(stack, 1, Len(stack) - 1)
  IN  IF /\ hierarchy_ok
         /\ Top.elem.tag \in {"activity", "leg"}
         /\ rest # <<>>
         /\ rest[Len(rest)].elem.tag = "plan"
      THEN [rest EXCEPT ![Len(rest)].kids = Append(@, Top.elem)]
      ELSE rest

\* lines 154-236: the end event of the top element
EndEvent ==
  /\ pc = "stream"
  /\ stack # <<>>
  /\ stack' = Popped
  /\ expected_trips' =
       IF hierarchy_ok /\ Top.elem.tag = "plan" /\ Top.elem.selected = "yes"
       THEN expected_trips + Cardinality(QualifyingLegs(Top.kids))
       ELSE expected_trips
  /\ plan_log' =
       IF hierarchy_ok /\ Top.elem.tag = "plan"
       THEN plan_log \cup
              {[selected |-> Top.elem.selected,
                car |-> Cardinality(QualifyingLegs(Top.kids)),
                legs |-> Cardinality(LegsBetweenActivities(Top.kids))]}
       ELSE plan_log
  /\ IF PlanEndHandled
     THEN IF is_selected_plan
          THEN \E r \in Scan(ItemsAfterEnd, SrcsAfterEnd, 1, NoActivity, NoSrc,
                             trip_counter) :
                 /\ outfile' = outfile \o r.lines
                 /\ trip_src' = trip_src \o r.srcs
                 /\ trip_counter' = trip_counter + Len(r.lines)
                 /\ skipped_no_start' = skipped_no_start \cup r.skipped
                 /\ last_scan' = [plan |-> Top.serial, selected |-> Top.elem.selected,
                                  owners |-> Owners(SrcsAfterEnd)]
                 /\ IF r.raised
                    THEN /\ ScriptEnds("unexpected")
                         /\ plan_items' = ItemsAfterEnd
                         /\ item_src' = SrcsAfterEnd
                         /\ UNCHANGED is_selected_plan
                    ELSE /\ is_selected_plan' = FALSE
                         /\ plan_items' = <<>>
                         /\ item_src' = <<>>
                         /\ UNCHANGED <<pc, failure, exit_status>>
                 /\ UNCHANGED current_person_id
          ELSE /\ is_selected_plan' = FALSE
               /\ plan_items' = <<>>
               /\ item_src' = <<>>
               /\ UNCHANGED <<pc, failure, exit_status, outfile, trip_src,
                              trip_counter, skipped_no_start, last_scan,
                              current_person_id>>
     ELSE /\ current_person_id' =
               IF Top.elem.tag = "person" THEN None ELSE current_person_id
          /\ plan_items' = ItemsAfterEnd
          /\ item_src' = SrcsAfterEnd
          /\ UNCHANGED <<pc, failure, exit_status, outfile, trip_src, trip_counter,
                         skipped_no_start, last_scan, is_selected_plan>>
  /\ UNCHANGED <<netvars, envvars, n_elems, outfile_opened, person_counter,
                 hierarchy_ok, conversions>>

\* lines 247-248: the parser raises XMLSyntaxError
PopulationSyntaxError ==
  /\ pc = "stream"
  /\ ScriptEnds("population_malformed")
  /\ UNCHANGED <<netvars, envvars, popvars, outvars, planvars, ghostvars>>

\* an end of document that leaves the root element of the output open
EndOfDocumentNoClose ==
  /\ pc = "stream"
  /\ stack = <<>>
  /\ n_elems > 0
  /\ ScriptEnds("none")
  /\ UNCHANGED <<netvars, envvars, popvars, outvars, planvars, ghostvars>>

\* lines 240-243: the document ended; write the root-close tag
EndOfDocument ==
  /\ pc = "stream"
  /\ stack = <<>>
  /\ n_elems > 0
  /\ outfile' = Append(outfile, RootClose)
  /\ ScriptEnds("none")
  /\ UNCHANGED <<netvars, envvars, popvars, outfile_opened, planvars, ghostvars>>

Next ==
  \/ OpenNetwork
  \/ ReadNode
  \/ EndNodes
  \/ ReadLink
  \/ EndLinks
  \/ OpenOutput
  \/ OpenPopulation
  \/ \E e \in PopElems : StartEvent(e)
  \/ EndEvent
  \/ PopulationSyntaxError
  \/ EndOfDocument

Spec == Init /\ [][Next]_vars

(***************************************************************************)
(* time_to_seconds on its own: the function is applied to each of the      *)
(* explored arguments, in any order, the script standing still.            *)
(***************************************************************************)
\* time_str of a call: an attribute value, or None for an absent attribute
TimeArguments == TimeStrings \cup {None}

InitTime ==
  /\ pc = "time_to_seconds"
  /\ network_file = NetMissing
  /\ net_pos = 1
  /\ node_coords_list = <<>>
  /\ node_id_map = <<>>
  /\ links_from_node_map = [k \in {} |-> <<>>]
  /\ kdtree_built = FALSE
  /\ node_kdtree = NoTree
  /\ population_file =
       [exists |-> FALSE, kinds |-> {}, len |-> 0, documented |-> FALSE]
  /\ output_openable = FALSE
  /\ stack = <<>>
  /\ n_elems = 0
  /\ outfile_opened = FALSE
  /\ outfile = <<>>
  /\ trip_counter = 0
  /\ person_counter = 0
  /\ current_person_id = None
  /\ is_selected_plan = FALSE
  /\ plan_items = <<>>
  /\ item_src = <<>>
  /\ trip_src = <<>>
  /\ last_scan = NoScan
  /\ skipped_no_start = {}
  /\ expected_trips = 0
  /\ plan_log = {}
  /\ hierarchy_ok = TRUE
  /\ conversions = <<>>
  /\ failure = "none"
  /\ exit_status = -1

\* one call of time_to_seconds
Convert(time_str) ==
  /\ pc = "time_to_seconds"
  /\ Len(conversions) < MaxCalls
  /\ conversions' = Append(conversions, [time_str |-> time_str,
                                         seconds |-> time_to_seconds(time_str)])
  /\ UNCHANGED <<pc, netvars, envvars, popvars, outvars, planvars, item_src, trip_src,
                 last_scan, skipped_no_start, expected_trips, plan_log, hierarchy_ok,
                 failure, exit_status>>

NextTime == \E time_str \in TimeArguments : Convert(time_str)

SpecTime == InitTime /\ [][NextTime]_vars

(***************************************************************************)
(* Properties.                                                             *)
(***************************************************************************)
IsTrip(line) == line.kind = "trip"

\* the trip lines of the output file, in file order
Trips == SelectSeq(outfile, IsTrip)

Finished == pc = "exit" /\ failure = "none"

\* the ids of the nodes the network load accepted
LoadedNodeIds == {node_id_map[i] : i \in 1..Len(node_id_map)}

\* the accepted links of the network document that leave `node`, by position
LinksFrom(node) ==
  {i \in 1..Len(network_file.elems) :
     LET e == network_file.elems[i]
     IN  /\ e.tag = "link"
         /\ e.id \notin {None, ""} /\ e.from \notin {None, ""} /\ e.to \notin {None, ""}
         /\ e.from = node}

FirstLinkFrom(node) ==
  IF LinksFrom(node) = {}
  THEN "UNKNOWN_LINK"
  ELSE network_file.elems[CHOOSE i \in LinksFrom(node) :
                            \A j \in LinksFrom(node) : i <= j].id

\* C1: when a run over a document that follows the hierarchy completes, the
\* number of trip lines equals the number of car legs of selected plans whose
\* activity before and activity immediately after both have coordinates and
\* whose start time is resolvable from dep_time or, failing that, end_time.
C1_TripCountEqualsQualifyingLegs ==
  (Finished /\ hierarchy_ok) => Len(Trips) = expected_trips

\* C2: the trip names written so far are t1, t2, ..., tK in that order, K being
\* trip_counter; they follow the root-open tag without a gap and come from
\* legs in document order.
C2_TripNamesContiguous ==
  /\ Len(Trips) = trip_counter
  /\ Len(trip_src) = trip_counter
  /\ \A i \in 1..Len(Trips) : Trips[i].name = <<"t", i>>
  /\ \A i \in 1..trip_counter : outfile[i + 1] = Trips[i]
  /\ \A i, j \in 1..Len(trip_src) :
       i < j => trip_src[i].leg.serial < trip_src[j].leg.serial

C2_Witness ==
  /\ Len(Trips) >= 2
  /\ Trips[1].name = <<"t", 1>>
  /\ Trips[2].name = <<"t", 2>>

\* C3: the start of every trip is dep_time when it parses and otherwise the
\* parsed end_time of the activity before, and a matched car leg is left
\* without a trip for want of a start time only when neither of them parses.
C3_StartTimeFallback ==
  /\ \A i \in 1..Len(trip_src) :
       Seconds(Trips[i].start) =
         DocumentedStart(trip_src[i].leg.elem.dep_time, trip_src[i].before.elem.end_time)
  /\ \A p \in skipped_no_start : ~Parseable(p[1]) /\ ~Parseable(p[2])

FatalFailures ==
  {"network_missing", "network_malformed", "no_nodes", "population_missing",
   "population_malformed", "output_open"}

\* C4: a run that ended in a fatal failure has a non-zero exit status, and a
\* run that ended without failure has exit status zero.
C4_ExitStatusReportsFailure ==
  pc = "exit" =>
    /\ failure \in FatalFailures => exit_status # 0
    /\ failure = "none" => exit_status = 0

NetworkLoadFailures == {"network_missing", "network_malformed", "no_nodes"}

LoadFailures ==
  NetworkLoadFailures \cup {"population_missing", "population_malformed"}

\* both passes over the network are over and the indices are in place
IndicesBuilt ==
  /\ kdtree_built
  /\ node_id_map # <<>>
  /\ Len(node_id_map) = Len(node_coords_list)
  /\ pc \notin {"main", "nodes", "links"}
  /\ net_pos > Len(network_file.elems)

PopulationTouched == outfile_opened \/ outfile # <<>> \/ n_elems > 0

\* C5 as stated: the output file is opened or written and population events are
\* consumed only with both indices built, and nothing of the population
\* processing precedes the detection of a load error, be it a missing or
\* malformed file or a network without usable nodes.
C5_NoProcessingBeforeAnyLoadError ==
  /\ PopulationTouched => IndicesBuilt
  /\ failure \in LoadFailures => ~PopulationTouched

\* C5 amended: the output file is opened or written and population events are
\* consumed only with both indices built, and nothing of the population
\* processing precedes the detection of a load error of the network.
C5_NoProcessingBeforeNetworkLoadError ==
  /\ PopulationTouched => IndicesBuilt
  /\ failure \in NetworkLoadFailures => ~PopulationTouched

C5_Witness == failure = "no_nodes" /\ pc = "exit" /\ Len(network_file.elems) > 0

\* C6: every trip line has an origin and a destination that are ids of loaded
\* nodes and an integer start, and a leg that yields no trip never ends the
\* processing of the population.
C6_TripOnlyWhenResolved ==
  /\ \A i \in 1..Len(Trips) :
       /\ Trips[i].origin \in LoadedNodeIds
       /\ Trips[i].destination \in LoadedNodeIds
       /\ Trips[i].start \in Int
  /\ failure # "unexpected"

C8_OnlyCarLegs ==
  /\ Len(trip_src) = trip_counter
  /\ \A i \in 1..Len(trip_src) :
       /\ trip_src[i].leg.elem.tag = "leg"
       /\ trip_src[i].leg.elem.mode = "car"
  /\ (hierarchy_ok /\ \A r \in plan_log : r.car = 0) => trip_counter = 0

C8_Witness ==
  /\ Finished
  /\ hierarchy_ok
  /\ \E r \in plan_log : r.selected = "yes" /\ r.legs > 0 /\ r.car = 0
  /\ trip_counter = 0

\* C9: the link_origin of every trip is the id of the first accepted link of
\* the network document that leaves the trip's origin, and "UNKNOWN_LINK" when
\* no accepted link leaves it.
C9_LinkOriginIsFirstOutgoingLink ==
  \A i \in 1..Len(Trips) :
    /\ Trips[i].link_origin = FirstLinkFrom(Trips[i].origin)
    /\ Trips[i].link_origin = "UNKNOWN_LINK" <=> LinksFrom(Trips[i].origin) = {}

C9_Witness ==
  /\ Len(Trips) >= 2
  /\ \E i \in 1..Len(Trips) :
       Trips[i].link_origin = "l1" /\ Cardinality(LinksFrom(Trips[i].origin)) > 1
  /\ \E i \in 1..Len(Trips) : Trips[i].link_origin = "UNKNOWN_LINK"

\* C10: the output starts with the root-open tag, every trip is in the file as
\* soon as it is counted, and the root-close tag is written once, last, only
\* when the population document was consumed to its end.
C10_OutputOrder ==
  /\ outfile_opened <=> outfile # <<>>
  /\ outfile # <<>> => outfile[1] = RootOpen
  /\ \A i \in 2..Len(outfile) :
       IsTrip(outfile[i]) \/ (i = Len(outfile) /\ outfile[i] = RootClose)
  /\ Len(Trips) = trip_counter
  /\ (\E i \in 1..Len(outfile) : outfile[i] = RootClose) <=> Finished
  /\ Finished => stack = <<>> /\ n_elems > 0

C10_Witness ==
  /\ Finished
  /\ Len(outfile) = 4
  /\ IsTrip(outfile[2]) /\ IsTrip(outfile[3])
  /\ outfile[4] = RootClose

(***************************************************************************)
(* The fields of a time string as documented: the text between the colons, *)
(* and the integer a field of digits with an optional sign stands for.     *)
(***************************************************************************)
DocumentedFields ==
  [s \in TimeStrings |->
     CASE s = "07:00:00" -> <<7, 0, 0>>
       [] s = "08:15:00" -> <<8, 15, 0>>
       [] s = "08:15"    -> <<8, 15>>
       [] s = "25:00:00" -> <<25, 0, 0>>
       [] s = "08:75"    -> <<8, 75>>
       [] s = "-1:30"    -> <<-1, 30>>
       [] s = "8"        -> <<8>>
       [] s = "1:2:3:4"  -> <<1, 2, 3, 4>>
       [] OTHER          -> <<>>]

\* C11: every call of time_to_seconds on two or three integer fields yields
\* H*3600 + M*60 (+ S), whatever the range of the fields ("08:15:00" and
\* "08:15" give 29700, "25:00:00" gives 90000), and every call on the empty
\* string, an absent value, a non-integer field, one field or more than three
\* fields yields no value.
C11_TimeToSeconds ==
  \A k \in 1..Len(conversions) :
    LET c == conversions[k]
        f == IF c.time_str \in TimeStrings THEN DocumentedFields[c.time_str] ELSE <<>>
    IN  /\ Len(f) = 3 => c.seconds = Seconds(f[1] * 3600 + f[2] * 60 + f[3])
        /\ Len(f) = 2 => c.seconds = Seconds(f[1] * 3600 + f[2] * 60)
        /\ Len(f) \notin {2, 3} => c.seconds = NoSeconds
        /\ c.time_str \in {"08:15:00", "08:15"} => c.seconds = Seconds(29700)
        /\ c.time_str = "25:00:00" => c.seconds = Seconds(90000)
        /\ c.time_str \in {"", None, "abc", "08:xx", "8", "1:2:3:4"} =>
             c.seconds = NoSeconds

C11_Witness ==
  /\ Len(conversions) = 2
  /\ conversions[1] = [time_str |-> "25:00:00", seconds |-> Seconds(90000)]
  /\ conversions[2] = [time_str |-> "8", seconds |-> NoSeconds]

\* the coordinates of an activity element of the document
CoordsOf(a) == [x |-> float(a.x).val, y |-> float(a.y).val]

\* the loaded node nearest to c that the network document lists first
FirstNearestNode(c) ==
  node_id_map[CHOOSE i \in NearestIndices(c, node_coords_list) :
                \A j \in NearestIndices(c, node_coords_list) : i <= j]

UsableNodes ==
  {i \in 1..Len(network_file.elems) :
     LET e == network_file.elems[i]
     IN  /\ e.tag = "node"
         /\ e.id \notin {None, ""}
         /\ e.x # None /\ e.y # None
         /\ float(e.x).ok /\ float(e.y).ok}

\* load_network_data is over
LoadOver == pc \notin {"main", "nodes", "links"}

\* C13: the network load fails exactly when the file cannot be opened, the
\* document is not well-formed, or it has no node with an id and numeric x
\* and y; otherwise every such node and every link with id, from and to is
\* loaded, whatever other nodes and links the document holds.
C13_LoadFailsExactlyWhen ==
  LoadOver =>
    /\ ~kdtree_built <=>
         \/ ~network_file.exists
         \/ ~network_file.wellformed
         \/ UsableNodes = {}
    /\ kdtree_built =>
         /\ Len(node_id_map) = Cardinality(UsableNodes)
         /\ \A i \in UsableNodes : network_file.elems[i].id \in LoadedNodeIds
         /\ \A k \in DOMAIN links_from_node_map :
              Len(links_from_node_map[k]) = Cardinality(LinksFrom(k))
         /\ \A i \in 1..Len(network_file.elems) :
              LinksFrom(network_file.elems[i].from) # {}
                => network_file.elems[i].from \in DOMAIN links_from_node_map

\* C14: in a document that follows the hierarchy, the leg of every trip
\* comes immediately after the activity the trip starts from: a car leg that
\* comes immediately after another leg yields no trip.
C14_LegAfterLegNotMatched ==
  hierarchy_ok =>
    \A i \in 1..Len(trip_src) : trip_src[i].leg.serial = trip_src[i].before.serial + 1

\* the step is the end event of an element with this tag
EndOf(tag) ==
  /\ pc = "stream"
  /\ stack # <<>>
  /\ Top.elem.tag = tag
  /\ Len(stack') = Len(stack) - 1

\* C15: every end event of a person, in any nesting of the elements, leaves
\* the current person id cleared, the selected-plan flag false and the item
\* buffer empty.
C15_PersonEndResets ==
  [][EndOf("person") =>
       /\ current_person_id' = None
       /\ ~is_selected_plan'
       /\ plan_items' = <<>>]_vars

\* C16: every end event of a plan after which the stream goes on leaves the
\* selected-plan flag false and the item buffer empty, and when the flag was
\* set the step is the extraction over the buffer as it was.
C16_PlanEndResets ==
  [][(EndOf("plan") /\ pc' = "stream") =>
       /\ ~is_selected_plan'
       /\ plan_items' = <<>>
       /\ is_selected_plan =>
            /\ last_scan'.plan = Top.serial
            /\ \E r \in Scan(plan_items, item_src, 1, NoActivity, NoSrc, trip_counter) :
                 outfile' = outfile \o r.lines]_vars

\* the item lines 169-179 build from an activity or leg element
ItemOf(e) == IF e.tag = "activity" THEN ActivityItem(e) ELSE LegItem(e)

\* the top element is a plan whose end event runs the extraction
ScanDue ==
  /\ pc = "stream"
  /\ stack # <<>>
  /\ Top.elem.tag = "plan"
  /\ current_person_id # None
  /\ is_selected_plan

\* C17: whenever the extraction is due at the end of a plan, that plan is
\* marked selected="yes" and the buffer holds items of elements of that plan
\* only, in document order; in a document that follows the hierarchy the
\* buffer is exactly the sequence of the activity and leg elements of the plan.
C17_NoLeakIntoExtraction ==
  ScanDue =>
    /\ Top.elem.selected = "yes"
    /\ Len(item_src) = Len(plan_items)
    /\ \A i \in 1..Len(plan_items) :
         /\ item_src[i].plan = Top.serial
         /\ item_src[i].serial > Top.serial
         /\ plan_items[i] = ItemOf(item_src[i].elem)
    /\ \A i, j \in 1..Len(item_src) : i < j => item_src[i].serial < item_src[j].serial
    /\ hierarchy_ok => plan_items = [i \in 1..Len(Top.kids) |-> ItemOf(Top.kids[i])]

C17_Witness ==
  /\ ScanDue
  /\ hierarchy_ok
  /\ Len(plan_items) >= 2
  /\ plan_items[1] # plan_items[2]
  /\ last_scan.plan # 0
  /\ last_scan.plan # Top.serial
  /\ last_scan.owners # {}

\* the step is the start event of an element with this tag
StartOf(tag) ==
  /\ pc = "stream"
  /\ Len(stack') = Len(stack) + 1
  /\ stack'[Len(stack')].elem.tag = tag

\* the open person elements
PersonsAround == {k \in 1..Len(stack) : stack[k].elem.tag = "person"}

\* the plan that starts, or the plan on top that ends, lies in a person
\* without id or in no person
InNoAgent ==
  \/ PersonsAround = {}
  \/ LET nearest == CHOOSE k \in PersonsAround : \A j \in PersonsAround : j <= k
     IN  stack[nearest].elem.id = None

\* C18: the start of a plan that lies in a person without id, or in no
\* person, changes neither the selected-plan flag nor the item buffer, and its
\* end writes no trip, runs no extraction and changes neither of them,
\* whatever the plan is marked and whatever it holds.
C18_PlanWithoutAgentIgnored ==
  [][/\ (StartOf("plan") /\ InNoAgent) =>
          UNCHANGED <<is_selected_plan, plan_items>>
     /\ (EndOf("plan") /\ InNoAgent) =>
          UNCHANGED <<outfile, trip_counter, last_scan, is_selected_plan, plan_items>>]_vars

C18_Witness ==
  /\ pc = "stream"
  /\ Len(stack) = 3
  /\ stack[2].elem = Person(None)
  /\ Top.elem = Plan("yes")
  /\ n_elems >= Top.serial + 3
  /\ ~is_selected_plan
  /\ plan_items = <<>>
  /\ trip_counter = 0

\* the car legs of a plan that lines 187-200 match and find a start time for
CarLegsWithStart(kids) ==
  {i \in 1..Len(kids) :
     /\ kids[i].tag = "leg"
     /\ kids[i].mode = "car"
     /\ ActivitiesBefore(kids, i) # {}
     /\ HasCoordinates(kids[ActivityBefore(kids, i)])
     /\ i + 1 <= Len(kids)
     /\ kids[i + 1].tag = "activity"
     /\ HasCoordinates(kids[i + 1])
     /\ time_to_seconds(StartTimeStr(kids[i], kids[ActivityBefore(kids, i)])).ok}

\* C19: every plan marked selected="yes" that starts while a current person
\* id is set is entered with an empty buffer, whichever plans of the person
\* came before, and in a document that follows the hierarchy the end of every
\* such plan writes one trip for each of its own matched car legs, from legs
\* of that plan.
C19_EverySelectedPlanExtracted ==
  [][/\ (StartOf("plan") /\ current_person_id # None
           /\ stack'[Len(stack')].elem.selected = "yes") =>
          (is_selected_plan' /\ plan_items' = <<>>)
     /\ (EndOf("plan") /\ hierarchy_ok /\ Top.elem.selected = "yes"
           /\ pc' = "stream") =>
          /\ trip_counter' = trip_counter + Cardinality(CarLegsWithStart(Top.kids))
          /\ Len(trip_src') = trip_counter'
          /\ \A i \in (trip_counter + 1)..trip_counter' :
               trip_src'[i].leg.plan = Top.serial]_vars

C19_Witness ==
  /\ hierarchy_ok
  /\ person_counter = 1
  /\ Len(trip_src) = 2
  /\ trip_src[1].leg.plan # trip_src[2].leg.plan
  /\ trip_src[1].leg.plan_selected = "yes"
  /\ trip_src[2].leg.plan_selected = "yes"
====
